---- MODULE Spec2Model ----
(***************************************************************************)
(* A model of staplegl's instanced vertex buffer (vertex_buffer_inst), of  *)
(* the vertex buffer it derives from (vertex_buffer), of the vertex buffer *)
(* layout (vertex_buffer_layout, shader_data_type), of the vertex array    *)
(* that programs the attributes of a layout (vertex_array) and of the part *)
(* of the OpenGL machine these classes drive.                              *)
(*                                                                         *)
(* Sizes, capacities and offsets are in bytes, as in the source.  Buffer   *)
(* contents are kept per float (one word of 4 bytes): every offset and     *)
(* length the classes pass to OpenGL is a multiple of sizeof(float).       *)
(***************************************************************************)
EXTENDS Integers, Sequences, FiniteSets, Bags, TLC

VARIABLES
    stores,     \* the vertex_buffer_inst objects: m_id, m_layout, m_capacity, m_count
    bufs,       \* OpenGL buffer objects by name: size, data store, mapped range
    bound,      \* OpenGL buffer binding points
    strict,     \* does the context reject every write to a buffer that is mapped
    shadow,     \* per store, the records a std::vector fed the same calls would hold
    last,       \* the call that produced this state, its arguments and its result
    lay_in,     \* the initializer list handed to a vertex_buffer_layout constructor
    lay_out,    \* the vertex_buffer_layout constructed from lay_in
    vao,        \* the vertex_array object and the attribute slots of its OpenGL array object
    debug,      \* is the library built with STAPLEGL_DEBUG
    raii        \* objects of the owning classes, OpenGL's vertex array names, the indexed uniform bindings

vars == <<stores, bufs, bound, strict, shadow, last, lay_in, lay_out, vao, debug, raii>>

(***************************************************************************)
(* Bounds of the model.                                                    *)
(***************************************************************************)
MaxCount == 3       \* add_instance is called while m_count < MaxCount
MaxInit == 5        \* longest initial data span, in floats
MaxAppend == 34     \* longest run of add_instance calls on an empty store
MaxOdd == 1         \* records of such a run that differ from the others
MaxMoveCount == 2   \* add_instance is called while m_count < MaxMoveCount where stores are moved
MaxMoveInit == 1    \* longest initial data span where stores are moved, in floats
MaxAttrs == 2       \* longest initializer list of a layout
MaxElems == 2       \* largest element_count of an array attribute
MaxSlots == 3       \* attributes programmed on one vertex_array
MaxLen == 3         \* longest span handed to add_instance or update_instance, in floats
MaxOwnCount == 1    \* add_instance is called while m_count < MaxOwnCount where handles are followed

(***************************************************************************)
(* Program constants.                                                      *)
(***************************************************************************)
SizeofFloat == 4
FirstGrowth == 32

(***************************************************************************)
(* shader_data_type                                                        *)
(***************************************************************************)
u_type == {"float32", "vec2", "vec3", "vec4", "mat3", "mat4"}

RECURSIVE size(_)
size(type) ==
    CASE type = "float32" -> SizeofFloat
      [] type = "vec2" -> SizeofFloat * 2
      [] type = "vec3" -> SizeofFloat * 3
      [] type = "vec4" -> SizeofFloat * 4
      [] type = "mat3" -> size("vec4") * 3
      [] type = "mat4" -> size("vec4") * 4

\* component_count counting the 9 floats of a mat3 and not its padded 12
component_count_mat3_unpadded(type) ==
    CASE type = "vec2" -> 2
      [] type = "vec3" -> 3
      [] type = "vec4" -> 4
      [] type = "mat3" -> 9
      [] type = "mat4" -> 16
      [] type = "float32" -> 1

component_count(type) ==
    CASE type = "vec2" -> 2
      [] type = "vec3" -> 3
      [] type = "vec4" -> 4
      [] type = "mat3" -> 12
      [] type = "mat4" -> 16
      [] type = "float32" -> 1

(***************************************************************************)
(* vertex_attribute and vertex_buffer_layout                               *)
(***************************************************************************)
Names == {"pos", "color"}

\* vertex_attribute(u_type, name): offset {} and element_count { 1 }
vertex_attribute(in_type, in_name) ==
    [type |-> in_type, name |-> in_name, offset |-> 0, element_count |-> 1]

\* vertex_attribute(shader_array_type, name, element_count)
vertex_attribute_arr(in_type, in_name, element_count) ==
    [type |-> in_type, name |-> in_name, offset |-> 0, element_count |-> element_count]

\* every attribute the two public constructors can build
Attributes ==
    {vertex_attribute(t, n) : t \in u_type, n \in Names}
    \cup {vertex_attribute_arr(t, n, e) : t \in u_type, n \in Names, e \in 0..MaxElems}

\* the default constructed layout: no attribute, m_stride {}
EmptyLayout == [m_stride |-> 0, m_attributes |-> <<>>]

\* LayoutLoop with the offset taken after the stride has been advanced
RECURSIVE LayoutLoopOffsetAfter(_, _, _)
LayoutLoopOffsetAfter(m_attributes, i, m_stride) ==
    IF i > Len(m_attributes)
    THEN [m_stride |-> m_stride, m_attributes |-> m_attributes]
    ELSE LET attribute == m_attributes[i]
             next == m_stride + size(attribute.type) * attribute.element_count
         IN LayoutLoopOffsetAfter([m_attributes EXCEPT ![i].offset = next], i + 1, next)

\* the body of the constructor's range-for, from attribute i on (offset is
\* a uint32: the strides of this model stay far below 2^32)
RECURSIVE LayoutLoop(_, _, _)
LayoutLoop(m_attributes, i, m_stride) ==
    IF i > Len(m_attributes)
    THEN [m_stride |-> m_stride, m_attributes |-> m_attributes]
    ELSE LET attribute == m_attributes[i]
         IN LayoutLoop(
                [m_attributes EXCEPT ![i].offset = m_stride],
                i + 1,
                m_stride + size(attribute.type) * attribute.element_count)

vertex_buffer_layout(attributes) == LayoutLoop(attributes, 1, 0)

stride(layout) == layout.m_stride

stride_elements(layout) == layout.m_stride \div SizeofFloat

\* what reading m_attributes[index] past the end of the vector can give:
\* std::vector::operator[] does not look at its size, the behaviour is
\* undefined; the read yields whatever lies behind the elements, or the
\* program is ended (a fault, or the assertion of a hardened library)
PastTheEnd ==
    {[kind |-> "attribute", value |-> vertex_attribute_arr("mat4", "color", 0)],
     [kind |-> "attribute", value |-> vertex_attribute("float32", "pos")],
     [kind |-> "terminated", value |-> vertex_attribute("float32", "pos")]}

\* vertex_buffer_layout::operator[](index); ub is what a read past the end gives
layout_at(layout, index, ub) ==
    IF index < Len(layout.m_attributes)
    THEN [kind |-> "attribute", value |-> layout.m_attributes[index + 1]]
    ELSE ub

(***************************************************************************)
(* glcore::vertex_buffer_layout, the layout that keeps its attributes in a *)
(* std::map keyed by name.  The map is the sequence of its values in key   *)
(* order, the order in which it is iterated.                               *)
(***************************************************************************)
\* the names in the order of std::less<std::string>
NameOrder == <<"color", "pos">>

NameRank(name) == CHOOSE i \in DOMAIN NameOrder : NameOrder[i] = name

RECURSIVE glcore_size(_)
glcore_size(type) ==
    CASE type = "float32" -> SizeofFloat
      [] type = "vec2" -> SizeofFloat * 2
      [] type = "vec3" -> SizeofFloat * 3
      [] type = "vec4" -> SizeofFloat * 4
      [] type = "mat3" -> glcore_size("vec4") * 3
      [] type = "mat4" -> glcore_size("vec4") * 4

\* m_attributes.emplace(attribute.name, attribute): nothing is inserted
\* when the key is there already
glcore_emplace(map, attribute) ==
    IF \E i \in DOMAIN map : map[i].name = attribute.name
    THEN map
    ELSE LET before == Cardinality({i \in DOMAIN map : NameRank(map[i].name) < NameRank(attribute.name)})
         IN SubSeq(map, 1, before) \o <<attribute>> \o SubSeq(map, before + 1, Len(map))

\* the first range-for of the constructor, from attribute i of the list on
RECURSIVE glcore_emplace_all(_, _, _)
glcore_emplace_all(map, attributes, i) ==
    IF i > Len(attributes) THEN map
    ELSE glcore_emplace_all(glcore_emplace(map, attributes[i]), attributes, i + 1)

\* the second range-for of the constructor: the values of the map in key
\* order, from the i-th on
RECURSIVE glcore_offsets(_, _, _)
glcore_offsets(map, i, m_stride) ==
    IF i > Len(map)
    THEN [m_stride |-> m_stride, m_attributes |-> map]
    ELSE glcore_offsets([map EXCEPT ![i].offset = m_stride], i + 1,
             m_stride + glcore_size(map[i].type) * map[i].element_count)

glcore_vertex_buffer_layout(attributes) ==
    glcore_offsets(glcore_emplace_all(<<>>, attributes, 1), 1, 0)

\* glcore::vertex_buffer_layout::operator[](name): m_attributes.at(name)
glcore_at(layout, name) ==
    IF \E i \in DOMAIN layout.m_attributes : layout.m_attributes[i].name = name
    THEN [kind |-> "attribute",
          value |-> layout.m_attributes[CHOOSE i \in DOMAIN layout.m_attributes :
                                           layout.m_attributes[i].name = name]]
    ELSE [kind |-> "terminated", value |-> vertex_attribute("float32", name)]

(***************************************************************************)
(* The OpenGL buffer-object machine, as far as the classes drive it.  A    *)
(* context g is [bufs, bound, strict].  A call that raises a GL error      *)
(* leaves the context as it was, as OpenGL specifies.                      *)
(***************************************************************************)
MaxBufs == 3        \* buffer names the context can hand out

BufIds == 1..MaxBufs

Targets == {"GL_ARRAY_BUFFER", "GL_COPY_READ_BUFFER", "GL_COPY_WRITE_BUFFER",
            "GL_ELEMENT_ARRAY_BUFFER", "GL_UNIFORM_BUFFER"}

\* values a data store holds where nothing was written, or that a read
\* through a null pointer yields
GarbageWords == {0, 11}

NoMap == <<>>

NoBuf == [gen |-> FALSE, size |-> 0, data |-> <<>>, map |-> NoMap]

Fill(n, w) == [i \in 1..n |-> w]

Words(bytes) == bytes \div SizeofFloat

\* pointers handed to OpenGL: host memory, a mapped range, or nullptr
HostPtr(words) == [kind |-> "host", words |-> words, buf |-> 0, off |-> 0]

MapPtr(id, off) == [kind |-> "map", words |-> <<>>, buf |-> id, off |-> off]

NullPtr == [kind |-> "null", words |-> <<>>, buf |-> 0, off |-> 0]

\* the n floats OpenGL reads through ptr; reading through nullptr, or past
\* the data store a mapped pointer points into, is undefined: it yields fill
Deref(g, ptr, n, fill) ==
    LET have == IF ptr.kind = "host" THEN ptr.words
                ELSE IF ptr.kind = "map"
                THEN SubSeq(g.bufs[ptr.buf].data, Words(ptr.off) + 1, Len(g.bufs[ptr.buf].data))
                ELSE <<>>
    IN IF Len(have) >= n THEN SubSeq(have, 1, n) ELSE have \o Fill(n - Len(have), fill)

\* data with the floats from offset off (in bytes) on replaced by w
Splice(data, off, w) ==
    SubSeq(data, 1, Words(off)) \o w \o SubSeq(data, Words(off) + Len(w) + 1, Len(data))

Overlap(off1, len1, off2, len2) == off1 < off2 + len2 /\ off2 < off1 + len1

FreeIds(g) == {id \in BufIds : ~g.bufs[id].gen}

\* the name glGenBuffers returns: the lowest unused one
NewName(g) == CHOOSE id \in FreeIds(g) : \A j \in FreeIds(g) : id <= j

\* glGenBuffers(1, &id) followed by the first bind of id
glGenBuffers(g, id) ==
    [g EXCEPT !.bufs[id] = [gen |-> TRUE, size |-> 0, data |-> <<>>, map |-> NoMap]]

glBindBuffer(g, target, id) == [g EXCEPT !.bound[target] = id]

\* glBufferData(target, size, ptr, usage): a new data store of size bytes,
\* undefined (fill) when ptr is null; an existing mapping is released
glBufferData(g, target, sz, ptr, fill) ==
    LET id == g.bound[target]
    IN IF id = 0 \/ sz < 0
       THEN g
       ELSE [g EXCEPT !.bufs[id] =
                [gen |-> TRUE, size |-> sz,
                 data |-> Deref(g, ptr, Words(sz), fill),
                 map |-> NoMap]]

\* does the context reject a write of [off, off+sz) to buffer b
\* GL_INVALID_OPERATION: OpenGL 4.4 rejects a write into the mapped range,
\* earlier versions (strict) reject every write to a mapped buffer
WriteRejected(g, b, off, sz) ==
    /\ b.map # NoMap
    /\ g.strict \/ Overlap(off, sz, b.map[1], b.map[2])

\* glBufferSubData(target, offset, size, ptr)
glBufferSubData(g, target, off, sz, ptr, fill) ==
    LET id == g.bound[target]
        b == g.bufs[id]
    IN IF id = 0 \/ off < 0 \/ sz < 0 THEN g
       ELSE IF off + sz > b.size THEN g
       ELSE IF WriteRejected(g, b, off, sz) THEN g
       ELSE [g EXCEPT !.bufs[id].data = Splice(@, off, Deref(g, ptr, Words(sz), fill))]

\* glCopyBufferSubData(readtarget, writetarget, readoffset, writeoffset, size)
glCopyBufferSubData(g, rtarget, wtarget, roff, woff, sz) ==
    LET rid == g.bound[rtarget]
        wid == g.bound[wtarget]
        r == g.bufs[rid]
        w == g.bufs[wid]
    IN IF rid = 0 \/ wid = 0 \/ sz < 0 THEN g
       ELSE IF roff + sz > r.size \/ woff + sz > w.size THEN g
       ELSE IF rid = wid /\ Overlap(roff, sz, woff, sz) THEN g
       ELSE IF r.map # NoMap \/ w.map # NoMap THEN g
       ELSE [g EXCEPT !.bufs[wid].data =
                Splice(@, woff, SubSeq(r.data, Words(roff) + 1, Words(roff) + Words(sz)))]

\* does glMapBufferRange(target, offset, length, access) succeed
MapSucceeds(g, target, off, len) ==
    LET id == g.bound[target]
    IN /\ id # 0
       /\ off >= 0
       /\ len > 0
       /\ off + len <= g.bufs[id].size
       /\ g.bufs[id].map = NoMap

\* the context after glMapBufferRange
glMapBufferRange(g, target, off, len) ==
    IF MapSucceeds(g, target, off, len)
    THEN [g EXCEPT !.bufs[g.bound[target]].map = <<off, len>>]
    ELSE g

\* the pointer glMapBufferRange returns
MappedPointer(g, target, off, len) ==
    IF MapSucceeds(g, target, off, len) THEN MapPtr(g.bound[target], off) ELSE NullPtr

glUnmapBuffer(g, target) ==
    LET id == g.bound[target]
    IN IF id = 0 \/ g.bufs[id].map = NoMap
       THEN g
       ELSE [g EXCEPT !.bufs[id].map = NoMap]

\* glDeleteBuffers(1, &id): name 0 and unused names are silently ignored;
\* the bindings of a deleted buffer revert to 0
glDeleteBuffers(g, id) ==
    IF id = 0 \/ ~g.bufs[id].gen
    THEN g
    ELSE [g EXCEPT !.bufs[id] = NoBuf,
                   !.bound = [t \in Targets |-> IF g.bound[t] = id THEN 0 ELSE g.bound[t]]]

(***************************************************************************)
(* vertex_buffer and vertex_buffer_inst.  A store st is the object's       *)
(* fields; every method takes the context and the object and yields both.  *)
(***************************************************************************)
StoreIds == {"A", "B"}

NoStore == [state |-> "none", m_id |-> 0, m_layout |-> EmptyLayout,
            m_capacity |-> 0, m_count |-> 0]

instance_size(st) == stride(st.m_layout)

instance_count(st) == st.m_count

capacity(st) == st.m_capacity

\* static_cast<size_t>(static_cast<double>(c) * std::numbers::phi), phi being
\* (1 + sqrt 5) / 2: floor((c + r) / 2) for r the integer part of c * sqrt 5
TimesPhi(c) ==
    LET r == CHOOSE x \in 0..(3 * c) : x * x <= 5 * c * c /\ (x + 1) * (x + 1) > 5 * c * c
    IN (c + r) \div 2

\* calc_capacity without its second case
calc_capacity_two_cases(st, cap) ==
    IF cap = 0 THEN instance_size(st) ELSE TimesPhi(cap)

calc_capacity(st, cap) ==
    IF cap = 0 THEN instance_size(st)
    ELSE IF cap = instance_size(st) THEN instance_size(st) * FirstGrowth
    ELSE TimesPhi(cap)

\* vertex_buffer(vertices, layout, hint) and the vertex_buffer_inst members:
\* m_capacity { instance_data.size() }, m_count {}
construct(g, layout, instance_data, id) ==
    LET g1 == glGenBuffers(g, id)
        g2 == glBindBuffer(g1, "GL_ARRAY_BUFFER", id)
        g3 == glBufferData(g2, "GL_ARRAY_BUFFER", Len(instance_data) * SizeofFloat,
                           HostPtr(instance_data), 0)
    IN [g |-> g3,
        st |-> [state |-> "live", m_id |-> id, m_layout |-> layout,
                m_capacity |-> Len(instance_data), m_count |-> 0]]

\* resize_buffer without the copy back into the grown buffer
resize_buffer_no_copy_back(g, st, old_capacity, new_capacity, new_id, fill) ==
    LET live == st.m_count * stride(st.m_layout)
        g1 == glGenBuffers(g, new_id)
        g2 == glBindBuffer(g1, "GL_COPY_WRITE_BUFFER", new_id)
        g3 == glBufferData(g2, "GL_COPY_WRITE_BUFFER", old_capacity, NullPtr, fill)
        g4 == glBindBuffer(g3, "GL_COPY_READ_BUFFER", st.m_id)
        g5 == glCopyBufferSubData(g4, "GL_COPY_READ_BUFFER", "GL_COPY_WRITE_BUFFER", 0, 0, live)
        g6 == glBindBuffer(g5, "GL_COPY_WRITE_BUFFER", st.m_id)
        g7 == glBufferData(g6, "GL_COPY_WRITE_BUFFER", new_capacity, NullPtr, fill)
        g8 == glBindBuffer(g7, "GL_COPY_READ_BUFFER", new_id)
        g10 == glDeleteBuffers(g8, new_id)
    IN glBindBuffer(g10, "GL_ARRAY_BUFFER", st.m_id)

\* resize_buffer without the glDeleteBuffers of the temporary buffer
resize_buffer_keeps_temp(g, st, old_capacity, new_capacity, new_id, fill) ==
    LET live == st.m_count * stride(st.m_layout)
        g1 == glGenBuffers(g, new_id)
        g2 == glBindBuffer(g1, "GL_COPY_WRITE_BUFFER", new_id)
        g3 == glBufferData(g2, "GL_COPY_WRITE_BUFFER", old_capacity, NullPtr, fill)
        g4 == glBindBuffer(g3, "GL_COPY_READ_BUFFER", st.m_id)
        g5 == glCopyBufferSubData(g4, "GL_COPY_READ_BUFFER", "GL_COPY_WRITE_BUFFER", 0, 0, live)
        g6 == glBindBuffer(g5, "GL_COPY_WRITE_BUFFER", st.m_id)
        g7 == glBufferData(g6, "GL_COPY_WRITE_BUFFER", new_capacity, NullPtr, fill)
        g8 == glBindBuffer(g7, "GL_COPY_READ_BUFFER", new_id)
        g9 == glCopyBufferSubData(g8, "GL_COPY_READ_BUFFER", "GL_COPY_WRITE_BUFFER", 0, 0, live)
    IN glBindBuffer(g9, "GL_ARRAY_BUFFER", st.m_id)

resize_buffer(g, st, old_capacity, new_capacity, new_id, fill) ==
    LET live == st.m_count * stride(st.m_layout)
        g1 == glGenBuffers(g, new_id)
        g2 == glBindBuffer(g1, "GL_COPY_WRITE_BUFFER", new_id)
        g3 == glBufferData(g2, "GL_COPY_WRITE_BUFFER", old_capacity, NullPtr, fill)
        g4 == glBindBuffer(g3, "GL_COPY_READ_BUFFER", st.m_id)
        g5 == glCopyBufferSubData(g4, "GL_COPY_READ_BUFFER", "GL_COPY_WRITE_BUFFER", 0, 0, live)
        g6 == glBindBuffer(g5, "GL_COPY_WRITE_BUFFER", st.m_id)
        g7 == glBufferData(g6, "GL_COPY_WRITE_BUFFER", new_capacity, NullPtr, fill)
        g8 == glBindBuffer(g7, "GL_COPY_READ_BUFFER", new_id)
        g9 == glCopyBufferSubData(g8, "GL_COPY_READ_BUFFER", "GL_COPY_WRITE_BUFFER", 0, 0, live)
        g10 == glDeleteBuffers(g9, new_id)
    IN glBindBuffer(g10, "GL_ARRAY_BUFFER", st.m_id)

\* instance_data is a span: a pointer and its size_bytes()
update_instance(g, st, index, ptr, size_bytes, fill) ==
    LET g1 == glBindBuffer(g, "GL_ARRAY_BUFFER", st.m_id)
    IN glBufferSubData(g1, "GL_ARRAY_BUFFER", index * size_bytes, size_bytes, ptr, fill)

\* the assertion update_instance makes in a STAPLEGL_DEBUG build
update_instance_assert(st, index, size_bytes) ==
    index < st.m_count \/ size_bytes = stride(st.m_layout)

\* MustGrow with >= for >
MustGrowWhenFull(st) == (st.m_count + 1) * stride(st.m_layout) >= st.m_capacity

\* the condition under which add_instance reallocates
MustGrow(st) == (st.m_count + 1) * stride(st.m_layout) > st.m_capacity

add_instance(g, st, instance_data, new_id, fill) ==
    LET grow == MustGrow(st)
        new_capacity == calc_capacity(st, st.m_capacity)
        g1 == IF grow THEN resize_buffer(g, st, st.m_capacity, new_capacity, new_id, fill) ELSE g
        st1 == IF grow THEN [st EXCEPT !.m_capacity = new_capacity] ELSE st
        g2 == update_instance(g1, st1, st1.m_count, HostPtr(instance_data),
                              Len(instance_data) * SizeofFloat, fill)
    IN [g |-> g2, st |-> [st1 EXCEPT !.m_count = st1.m_count + 1]]

\* OutOfRange with > for >=
OutOfRangeOffByOne(st, index) == index > st.m_count \/ index < 0

\* the early return of delete_instance
OutOfRange(st, index) == index >= st.m_count \/ index < 0

\* in delete_instance(index), is the buffer that update_instance binds and
\* writes to mapped when glBufferSubData is issued, glUnmapBuffer coming
\* only after the write
MappedAtWrite(g, st, index) ==
    /\ ~OutOfRange(st, index)
    /\ st.m_id # 0
    /\ LET off == (st.m_count - 1) * stride(st.m_layout)
           len == stride(st.m_layout)
           g1 == glMapBufferRange(g, "GL_ARRAY_BUFFER", off, len)
           g2 == glBindBuffer(g1, "GL_ARRAY_BUFFER", st.m_id)
       IN g2.bufs[g2.bound["GL_ARRAY_BUFFER"]].map # NoMap

\* delete_instance returning the index of the last instance
delete_instance_returns_last(g, st, index, fill) ==
    IF OutOfRange(st, index)
    THEN [g |-> g, st |-> st, ret |-> st.m_count]
    ELSE LET off == (st.m_count - 1) * stride(st.m_layout)
             len == stride(st.m_layout)
             last_instance_ptr == MappedPointer(g, "GL_ARRAY_BUFFER", off, len)
             g1 == glMapBufferRange(g, "GL_ARRAY_BUFFER", off, len)
             g2 == update_instance(g1, st, index, last_instance_ptr,
                                   stride_elements(st.m_layout) * SizeofFloat, fill)
             g3 == glUnmapBuffer(g2, "GL_ARRAY_BUFFER")
         IN [g |-> g3, st |-> [st EXCEPT !.m_count = st.m_count - 1], ret |-> st.m_count - 1]

delete_instance(g, st, index, fill) ==
    IF OutOfRange(st, index)
    THEN [g |-> g, st |-> st, ret |-> st.m_count]
    ELSE LET off == (st.m_count - 1) * stride(st.m_layout)
             len == stride(st.m_layout)
             last_instance_ptr == MappedPointer(g, "GL_ARRAY_BUFFER", off, len)
             g1 == glMapBufferRange(g, "GL_ARRAY_BUFFER", off, len)
             g2 == update_instance(g1, st, index, last_instance_ptr,
                                   stride_elements(st.m_layout) * SizeofFloat, fill)
             g3 == glUnmapBuffer(g2, "GL_ARRAY_BUFFER")
         IN [g |-> g3, st |-> [st EXCEPT !.m_count = st.m_count - 1], ret |-> index]

\* move_construct without other.m_id = 0
move_construct_keeps_id(other) ==
    [dst |-> [state |-> "live", m_id |-> other.m_id, m_layout |-> other.m_layout,
              m_capacity |-> other.m_capacity, m_count |-> other.m_count],
     src |-> [other EXCEPT !.m_layout.m_attributes = <<>>]]

\* vertex_buffer(vertex_buffer&&) with the defaulted vertex_buffer_inst move
\* constructor: the base is moved (the layout's vector is moved out of the
\* source, its m_stride copied), m_capacity and m_count are copied
move_construct(other) ==
    [dst |-> [state |-> "live", m_id |-> other.m_id, m_layout |-> other.m_layout,
              m_capacity |-> other.m_capacity, m_count |-> other.m_count],
     src |-> [other EXCEPT !.m_id = 0, !.m_layout.m_attributes = <<>>]]

\* vertex_buffer::operator=(vertex_buffer&&) with the defaulted
\* vertex_buffer_inst move assignment; this and other are distinct objects
move_assign(g, this, other) ==
    [g |-> glDeleteBuffers(g, this.m_id),
     dst |-> [this EXCEPT !.m_id = other.m_id, !.m_layout = other.m_layout,
                          !.m_capacity = other.m_capacity, !.m_count = other.m_count],
     src |-> [other EXCEPT !.m_id = 0]]

\* ~vertex_buffer()
destroy(g, st) ==
    [g |-> IF st.m_id # 0 THEN glDeleteBuffers(g, st.m_id) ELSE g,
     st |-> [st EXCEPT !.state = "dead"]]

(***************************************************************************)
(* index_buffer and uniform_buffer: the fields of the object.  base is     *)
(* OpenGL's indexed GL_UNIFORM_BUFFER bindings.                            *)
(***************************************************************************)
\* index_buffer() = default: m_id {}, m_count {}
index_buffer_default == [m_id |-> 0, m_count |-> 0]

\* index_buffer(std::span<const std::uint32_t> indices)
index_buffer(g, indices, id) ==
    LET g1 == glGenBuffers(g, id)
        g2 == glBindBuffer(g1, "GL_ELEMENT_ARRAY_BUFFER", id)
        g3 == glBufferData(g2, "GL_ELEMENT_ARRAY_BUFFER", Len(indices) * 4, HostPtr(indices), 0)
    IN [g |-> g3, obj |-> [m_id |-> id, m_count |-> Len(indices)]]

\* ~index_buffer()
index_buffer_destroy(g, this) ==
    IF this.m_id # 0 THEN glDeleteBuffers(g, this.m_id) ELSE g

\* index_buffer(index_buffer&& other)
index_buffer_move_construct(other) ==
    [dst |-> [m_id |-> other.m_id, m_count |-> other.m_count],
     src |-> [other EXCEPT !.m_id = 0]]

\* index_buffer::operator=(index_buffer&& other), this and other distinct:
\* no glDeleteBuffers
index_buffer_move_assign(g, this, other) ==
    [g |-> g,
     dst |-> [this EXCEPT !.m_id = other.m_id, !.m_count = other.m_count],
     src |-> [other EXCEPT !.m_id = 0]]

BindingPoints == {0}

NoBase == [p \in BindingPoints |-> 0]

glBindBufferBase(base, index, id) == [base EXCEPT ![index] = id]

\* the indexed bindings once the buffers deleted from g are gone: a binding
\* of a deleted buffer reverts to 0
Unbase(base, g) ==
    [p \in BindingPoints |-> IF base[p] # 0 /\ ~g.bufs[base[p]].gen THEN 0 ELSE base[p]]

\* uniform_buffer(contents, layout, binding_point)
uniform_buffer(g, base, contents, layout, binding_point, id) ==
    LET g1 == glGenBuffers(g, id)
        g2 == glBindBuffer(g1, "GL_UNIFORM_BUFFER", id)
        g3 == glBufferData(g2, "GL_UNIFORM_BUFFER", Len(contents) * SizeofFloat,
                           HostPtr(contents), 0)
        b1 == glBindBufferBase(base, binding_point, id)
        g4 == glBindBuffer(g3, "GL_UNIFORM_BUFFER", 0)
    IN [g |-> g4, base |-> b1,
        obj |-> [m_id |-> id, m_binding_point |-> binding_point, m_layout |-> layout]]

\* ~uniform_buffer()
uniform_buffer_destroy(g, this) ==
    IF this.m_id # 0 THEN glDeleteBuffers(g, this.m_id) ELSE g

\* uniform_buffer(uniform_buffer&& other): the layout is moved out of other
uniform_buffer_move_construct(other) ==
    [dst |-> [m_id |-> other.m_id, m_binding_point |-> other.m_binding_point,
              m_layout |-> other.m_layout],
     src |-> [other EXCEPT !.m_id = 0, !.m_layout.m_attributes = <<>>]]

\* uniform_buffer::operator=(uniform_buffer&& other), this and other distinct
uniform_buffer_move_assign(g, this, other) ==
    [g |-> glDeleteBuffers(g, this.m_id),
     dst |-> [this EXCEPT !.m_id = other.m_id, !.m_binding_point = other.m_binding_point,
                          !.m_layout = other.m_layout],
     src |-> [other EXCEPT !.m_id = 0, !.m_layout.m_attributes = <<>>]]

(***************************************************************************)
(* vertex_array.  va is the object's fields with, in slots, the state of   *)
(* the generic vertex attributes of the OpenGL array object m_id: for      *)
(* each index what glEnableVertexAttribArray, glVertexAttribPointer and    *)
(* glVertexAttribDivisor were last handed, how often a pointer was set     *)
(* and by which method.  The indices of the model stay below               *)
(* GL_MAX_VERTEX_ATTRIBS.                                                  *)
(***************************************************************************)
SlotIds == 0..(MaxSlots + 1)

NoSlot == [enabled |-> FALSE, programmed |-> 0, by |-> "none", size |-> 0, type |-> "none",
           stride |-> 0, offset |-> 0, buffer |-> 0, divisor |-> 0, accepted |-> FALSE]

\* std::optional<vertex_buffer_inst> without a value
Nullopt == NoStore

\* vertex_array(): glGenVertexArrays(1, &m_id), the first name being 1
vertex_array ==
    [m_id |-> 1, m_vertex_buffers |-> <<>>, m_instanced_vbo |-> Nullopt,
     m_index_buffer |-> index_buffer_default, attrib_index |-> 0, current |-> 0, slots |-> [i \in SlotIds |-> NoSlot]]

to_opengl_underlying_type(type) == IF type \in u_type THEN "GL_FLOAT" ELSE "terminate"

glBindVertexArray(va, id) == [va EXCEPT !.current = id]

glEnableVertexAttribArray(va, index) == [va EXCEPT !.slots[index].enabled = TRUE]

\* glVertexAttribPointer(index, size, type, GL_FALSE, stride, pointer) with a
\* buffer bound to GL_ARRAY_BUFFER: the descriptor handed over for the
\* index; OpenGL accepts a size of 1 to 4 and raises GL_INVALID_VALUE for
\* any other
glVertexAttribPointer(va, g, by, index, sz, type, strd, pointer) ==
    [va EXCEPT !.slots[index] =
        [@ EXCEPT !.programmed = @ + 1, !.by = by, !.size = sz, !.type = type,
                  !.stride = strd, !.offset = pointer,
                  !.buffer = g.bound["GL_ARRAY_BUFFER"],
                  !.accepted = sz \in 1..4]]

glVertexAttribDivisor(va, index, divisor) == [va EXCEPT !.slots[index].divisor = divisor]

\* the vertex_buffer base of a buffer object
vertex_buffer(id, layout) ==
    [state |-> "live", m_id |-> id, m_layout |-> layout, m_capacity |-> 0, m_count |-> 0]

\* add_vertex_buffer's range-for with the divisor call of set_instance_buffer
RECURSIVE add_vertex_buffer_loop_divisor(_, _, _, _)
add_vertex_buffer_loop_divisor(va, g, layout, i) ==
    IF i > Len(layout.m_attributes)
    THEN va
    ELSE LET a == layout.m_attributes[i]
             va1 == glEnableVertexAttribArray(va, va.attrib_index)
             va2 == glVertexAttribPointer(va1, g, "add_vertex_buffer", va.attrib_index,
                        component_count(a.type) * a.element_count,
                        to_opengl_underlying_type(a.type), stride(layout), a.offset)
             va3 == [va2 EXCEPT !.attrib_index = @ + 1]
             va4 == glVertexAttribDivisor(va3, va3.attrib_index - 1, 1)
         IN add_vertex_buffer_loop_divisor(va4, g, layout, i + 1)

\* the range-for of add_vertex_buffer, from attribute i of the layout on
RECURSIVE add_vertex_buffer_loop(_, _, _, _)
add_vertex_buffer_loop(va, g, layout, i) ==
    IF i > Len(layout.m_attributes)
    THEN va
    ELSE LET a == layout.m_attributes[i]
             va1 == glEnableVertexAttribArray(va, va.attrib_index)
             va2 == glVertexAttribPointer(va1, g, "add_vertex_buffer", va.attrib_index,
                        component_count(a.type) * a.element_count,
                        to_opengl_underlying_type(a.type), stride(layout), a.offset)
             va3 == [va2 EXCEPT !.attrib_index = @ + 1]
         IN add_vertex_buffer_loop(va3, g, layout, i + 1)

\* add_vertex_buffer(vertex_buffer&& vbo): the buffer is moved to the back of
\* m_vertex_buffers and its attributes are programmed
add_vertex_buffer(g, va, vbo) ==
    LET m == move_construct(vbo)
        va1 == [va EXCEPT !.m_vertex_buffers = Append(@, m.dst)]
        va2 == glBindVertexArray(va1, va1.m_id)
        vbo_ref == va2.m_vertex_buffers[Len(va2.m_vertex_buffers)]
        g1 == glBindBuffer(g, "GL_ARRAY_BUFFER", vbo_ref.m_id)
    IN [g |-> g1, va |-> add_vertex_buffer_loop(va2, g1, vbo_ref.m_layout, 1), vbo |-> m.src]

\* set_instance_buffer's range-for without the offset of the attribute
RECURSIVE set_instance_buffer_loop_no_offset(_, _, _, _)
set_instance_buffer_loop_no_offset(va, g, layout, i) ==
    IF i > Len(layout.m_attributes)
    THEN va
    ELSE LET a == layout.m_attributes[i]
             va1 == glEnableVertexAttribArray(va, va.attrib_index)
             va2 == glVertexAttribPointer(va1, g, "set_instance_buffer", va.attrib_index,
                        component_count(a.type) * a.element_count,
                        to_opengl_underlying_type(a.type), stride(layout), 0)
             va3 == [va2 EXCEPT !.attrib_index = @ + 1]
             va4 == glVertexAttribDivisor(va3, va3.attrib_index - 1, 1)
         IN set_instance_buffer_loop_no_offset(va4, g, layout, i + 1)

\* the range-for of set_instance_buffer, from attribute i of the layout on
RECURSIVE set_instance_buffer_loop(_, _, _, _)
set_instance_buffer_loop(va, g, layout, i) ==
    IF i > Len(layout.m_attributes)
    THEN va
    ELSE LET a == layout.m_attributes[i]
             va1 == glEnableVertexAttribArray(va, va.attrib_index)
             va2 == glVertexAttribPointer(va1, g, "set_instance_buffer", va.attrib_index,
                        component_count(a.type) * a.element_count,
                        to_opengl_underlying_type(a.type), stride(layout), a.offset)
             va3 == [va2 EXCEPT !.attrib_index = @ + 1]
             va4 == glVertexAttribDivisor(va3, va3.attrib_index - 1, 1)
         IN set_instance_buffer_loop(va4, g, layout, i + 1)

\* set_instance_buffer numbering its attributes from 0
set_instance_buffer_from_zero(g, va, vbo) ==
    LET engaged == va.m_instanced_vbo.state = "live"
        mc == move_construct(vbo)
        ma == move_assign(g, va.m_instanced_vbo, vbo)
        g1 == IF engaged THEN ma.g ELSE g
        va1 == [va EXCEPT !.m_instanced_vbo = IF engaged THEN ma.dst ELSE mc.dst,
                          !.attrib_index = 0]
        va2 == glBindVertexArray(va1, va1.m_id)
        g2 == glBindBuffer(g1, "GL_ARRAY_BUFFER", va2.m_instanced_vbo.m_id)
    IN [g |-> g2,
        va |-> set_instance_buffer_loop(va2, g2, va2.m_instanced_vbo.m_layout, 1),
        vbo |-> IF engaged THEN ma.src ELSE mc.src]

\* set_instance_buffer(vertex_buffer_inst&& vbo): m_instanced_vbo = std::move(vbo)
\* move-constructs the value of an empty optional and move-assigns to the
\* value of an engaged one
set_instance_buffer(g, va, vbo) ==
    LET engaged == va.m_instanced_vbo.state = "live"
        mc == move_construct(vbo)
        ma == move_assign(g, va.m_instanced_vbo, vbo)
        g1 == IF engaged THEN ma.g ELSE g
        va1 == [va EXCEPT !.m_instanced_vbo = IF engaged THEN ma.dst ELSE mc.dst]
        va2 == glBindVertexArray(va1, va1.m_id)
        g2 == glBindBuffer(g1, "GL_ARRAY_BUFFER", va2.m_instanced_vbo.m_id)
    IN [g |-> g2,
        va |-> set_instance_buffer_loop(va2, g2, va2.m_instanced_vbo.m_layout, 1),
        vbo |-> IF engaged THEN ma.src ELSE mc.src]

\* clear_instance_buffer(): m_instanced_vbo.reset() destroys the value
clear_instance_buffer(g, va) ==
    IF va.m_instanced_vbo.state = "live"
    THEN [g |-> destroy(g, va.m_instanced_vbo).g, va |-> [va EXCEPT !.m_instanced_vbo = Nullopt]]
    ELSE [g |-> g, va |-> va]

\* OpenGL's vertex array names: is the name in use
VaoIds == 1..MaxBufs

FreeArrays(arrays) == {id \in VaoIds : ~arrays[id]}

\* the name glGenVertexArrays returns: the lowest unused one
NewArray(arrays) == CHOOSE id \in FreeArrays(arrays) : \A j \in FreeArrays(arrays) : id <= j

glGenVertexArrays(arrays, id) == [arrays EXCEPT ![id] = TRUE]

\* glDeleteVertexArrays(1, &id): 0 and unused names are ignored
glDeleteVertexArrays(arrays, id) ==
    IF id = 0 THEN arrays ELSE [arrays EXCEPT ![id] = FALSE]

\* vertex_array(): nothing attached, a default index_buffer
vertex_array_construct(arrays, id) ==
    [arrays |-> glGenVertexArrays(arrays, id), obj |-> [vertex_array EXCEPT !.m_id = id]]

\* the destructors of the elements of a std::list<vertex_buffer>
RECURSIVE destroy_list(_, _)
destroy_list(g, buffers) ==
    IF buffers = <<>> THEN g
    ELSE destroy_list(destroy(g, Head(buffers)).g, Tail(buffers))

\* the destructor of a std::optional<vertex_buffer_inst>
destroy_optional(g, opt) == IF opt.state = "live" THEN destroy(g, opt).g ELSE g

\* ~vertex_array(): glDeleteVertexArrays, then the members in reverse order
vertex_array_destroy(g, arrays, this) ==
    LET g1 == index_buffer_destroy(g, this.m_index_buffer)
        g2 == destroy_optional(g1, this.m_instanced_vbo)
    IN [arrays |-> glDeleteVertexArrays(arrays, this.m_id),
        g |-> destroy_list(g2, this.m_vertex_buffers)]

\* the move constructor of std::optional<vertex_buffer_inst>: an engaged
\* other stays engaged, holding the moved-from value
optional_move_construct(other) ==
    IF other.state = "live"
    THEN move_construct(other)
    ELSE [dst |-> Nullopt, src |-> other]

\* the move assignment of std::optional<vertex_buffer_inst>
optional_move_assign(g, this, other) ==
    IF this.state = "live" /\ other.state = "live"
    THEN move_assign(g, this, other)
    ELSE IF this.state = "live"
    THEN [g |-> destroy(g, this).g, dst |-> Nullopt, src |-> other]
    ELSE IF other.state = "live"
    THEN [g |-> g, dst |-> move_construct(other).dst, src |-> move_construct(other).src]
    ELSE [g |-> g, dst |-> this, src |-> other]

\* vertex_array(vertex_array&& other)
vertex_array_move_construct(other) ==
    LET inst == optional_move_construct(other.m_instanced_vbo)
        ibo == index_buffer_move_construct(other.m_index_buffer)
    IN [dst |-> [other EXCEPT !.m_instanced_vbo = inst.dst, !.m_index_buffer = ibo.dst],
        src |-> [other EXCEPT !.m_id = 0, !.m_vertex_buffers = <<>>,
                              !.m_instanced_vbo = inst.src, !.m_index_buffer = ibo.src]]

\* vertex_array::operator=(vertex_array&& other), this and other distinct:
\* no glDeleteVertexArrays; the list's old elements are destroyed
vertex_array_move_assign(g, this, other) ==
    LET g1 == destroy_list(g, this.m_vertex_buffers)
        inst == optional_move_assign(g1, this.m_instanced_vbo, other.m_instanced_vbo)
        ibo == index_buffer_move_assign(inst.g, this.m_index_buffer, other.m_index_buffer)
    IN [g |-> ibo.g,
        dst |-> [this EXCEPT !.m_id = other.m_id,
                             !.m_vertex_buffers = other.m_vertex_buffers,
                             !.m_instanced_vbo = inst.dst,
                             !.m_index_buffer = ibo.dst,
                             !.attrib_index = other.attrib_index],
        src |-> [other EXCEPT !.m_id = 0, !.m_vertex_buffers = <<>>,
                              !.m_instanced_vbo = inst.src, !.m_index_buffer = ibo.src]]

\* an object of one of the owning classes: its class and its fields
RaiiKinds == {"vertex_buffer", "index_buffer", "uniform_buffer", "vertex_array"}

NoObject == [kind |-> "none", val |-> [m_id |-> 0]]

NoRaii ==
    [objs |-> [o \in StoreIds |-> NoObject],
     arrays |-> [id \in VaoIds |-> FALSE],
     base |-> NoBase]

(***************************************************************************)
(* The program: the calls a client makes on its stores.                    *)
(***************************************************************************)
Ctx == [bufs |-> bufs, bound |-> bound, strict |-> strict]

SetCtx(g) == bufs' = g.bufs /\ bound' = g.bound /\ strict' = strict

\* the layouts the stores are built over: strides 4 and 12
StoreLayouts ==
    {vertex_buffer_layout(<<vertex_attribute("float32", "pos")>>),
     vertex_buffer_layout(<<vertex_attribute("vec3", "pos")>>)}

Tags == {1, 2}

\* the record of one instance: stride_elements floats, all distinct
Rec(layout, tag) == [j \in 1..stride_elements(layout) |-> tag * 10 + j]

\* an initial data span of n floats
InitData(layout, n) == [i \in 1..n |-> 30 + ((i - 1) % stride_elements(layout)) + 1]

\* a call op on store s (moving from store src), the index it was given, the
\* value it returned, m_count before the call, whether it reallocated
Call(op, s, src, index, ret, n, grew) ==
    [op |-> op, store |-> s, from |-> src, index |-> index, ret |-> ret, n |-> n, grew |-> grew]

Live(s) == stores[s].state = "live"

\* the floats of slot k of store s in its device buffer, <<>> where the
\* buffer does not reach
Slot(bs, st, k) ==
    LET w == stride_elements(st.m_layout)
        d == bs[st.m_id].data
    IN IF st.m_id # 0 /\ (k + 1) * w <= Len(d)
       THEN [j \in 1..w |-> d[k * w + j]]
       ELSE <<>>

Construct(s, layout, n) ==
    /\ stores[s].state = "none"
    /\ FreeIds(Ctx) # {}
    /\ LET r == construct(Ctx, layout, InitData(layout, n), NewName(Ctx))
       IN /\ SetCtx(r.g)
          /\ stores' = [stores EXCEPT ![s] = r.st]
    /\ shadow' = [shadow EXCEPT ![s] = <<>>]
    /\ last' = Call("construct", s, s, n, 0, 0, FALSE)
    /\ UNCHANGED <<lay_in, lay_out, vao, debug, raii>>

AddStep(s, tag, fill) ==
    /\ Live(s)
    /\ FreeIds(Ctx) # {}
    /\ MustGrow(stores[s]) \/ fill = 0
    /\ LET st == stores[s]
           r == add_instance(Ctx, st, Rec(st.m_layout, tag), NewName(Ctx), fill)
       IN /\ SetCtx(r.g)
          /\ stores' = [stores EXCEPT ![s] = r.st]
          /\ shadow' = [shadow EXCEPT ![s] = Append(@, Rec(st.m_layout, tag))]
          /\ last' = Call("add", s, s, st.m_count, 0, st.m_count, MustGrow(st))
    /\ UNCHANGED <<lay_in, lay_out, vao, debug, raii>>

Add(s, tag, fill) ==
    /\ stores[s].m_count < MaxCount
    /\ AddStep(s, tag, fill)

\* (only a reallocation leaves undefined floats behind: fill)

\* update_instance under its precondition: an index in [0, count) and a
\* record of stride bytes
Update(s, index, tag) ==
    /\ Live(s)
    /\ index >= 0 /\ index < stores[s].m_count
    /\ LET st == stores[s]
           rec == Rec(st.m_layout, tag)
       IN /\ SetCtx(update_instance(Ctx, st, index, HostPtr(rec), Len(rec) * SizeofFloat, 0))
          /\ shadow' = [shadow EXCEPT ![s] = [@ EXCEPT ![index + 1] = rec]]
          /\ last' = Call("update", s, s, index, 0, st.m_count, FALSE)
    /\ UNCHANGED <<stores, lay_in, lay_out, vao, debug, raii>>

\* what std::vector does for the same delete: the last element is moved to
\* position index and the vector shrinks by one
SwapRemove(seq, index) ==
    IF index < 0 \/ index >= Len(seq) THEN seq
    ELSE SubSeq([seq EXCEPT ![index + 1] = seq[Len(seq)]], 1, Len(seq) - 1)

\* delete_instance with any index from -1 to one past the last valid one
Delete(s, index, fill) ==
    /\ Live(s)
    /\ index <= stores[s].m_count
    /\ LET st == stores[s]
           r == delete_instance(Ctx, st, index, fill)
       IN /\ SetCtx(r.g)
          /\ stores' = [stores EXCEPT ![s] = r.st]
          /\ shadow' = [shadow EXCEPT ![s] = SwapRemove(@, index)]
          /\ last' = Call("delete", s, s, index, r.ret, st.m_count, FALSE)
    /\ UNCHANGED <<lay_in, lay_out, vao, debug, raii>>

MoveConstruct(d, s) ==
    /\ stores[d].state = "none"
    /\ Live(s)
    /\ LET r == move_construct(stores[s])
       IN stores' = [stores EXCEPT ![d] = r.dst, ![s] = r.src]
    /\ shadow' = [shadow EXCEPT ![d] = shadow[s], ![s] = <<>>]
    /\ last' = Call("move_construct", d, s, 0, 0, stores[s].m_count, FALSE)
    /\ UNCHANGED <<bufs, bound, strict, lay_in, lay_out, vao, debug, raii>>

MoveAssign(d, s) ==
    /\ Live(d) /\ Live(s) /\ d # s
    /\ LET r == move_assign(Ctx, stores[d], stores[s])
       IN /\ SetCtx(r.g)
          /\ stores' = [stores EXCEPT ![d] = r.dst, ![s] = r.src]
    /\ shadow' = [shadow EXCEPT ![d] = shadow[s], ![s] = <<>>]
    /\ last' = Call("move_assign", d, s, 0, 0, stores[s].m_count, FALSE)
    /\ UNCHANGED <<lay_in, lay_out, vao, debug, raii>>

Destroy(s) ==
    /\ Live(s)
    /\ LET r == destroy(Ctx, stores[s])
       IN /\ SetCtx(r.g)
          /\ stores' = [stores EXCEPT ![s] = r.st]
    /\ shadow' = [shadow EXCEPT ![s] = <<>>]
    /\ last' = Call("destroy", s, s, 0, 0, stores[s].m_count, FALSE)
    /\ UNCHANGED <<lay_in, lay_out, vao, debug, raii>>

InitStores ==
    /\ stores = [s \in StoreIds |-> NoStore]
    /\ bufs = [id \in BufIds |-> NoBuf]
    /\ bound = [t \in Targets |-> 0]
    /\ strict \in BOOLEAN
    /\ shadow = [s \in StoreIds |-> <<>>]
    /\ last = Call("init", "A", "A", 0, 0, 0, FALSE)
    /\ lay_in = <<>>
    /\ lay_out = EmptyLayout
    /\ vao = vertex_array
    /\ debug = FALSE   \* calls made within the preconditions pass the assertion in any build
    /\ raii = NoRaii

(***************************************************************************)
(* Spec: one store, constructed over any initial data, then any sequence   *)
(* of add_instance, update_instance and delete_instance calls.             *)
(***************************************************************************)
Init == InitStores

Next ==
    \/ \E layout \in StoreLayouts, n \in 0..MaxInit : Construct("A", layout, n)
    \/ \E tag \in Tags, fill \in GarbageWords : Add("A", tag, fill)
    \/ \E index \in 0..MaxCount, tag \in Tags : Update("A", index, tag)
    \/ \E index \in -1..MaxCount, fill \in GarbageWords : Delete("A", index, fill)

Spec == Init /\ [][Next]_vars

(***************************************************************************)
(* SpecAppend: one store constructed over an empty span, then a run of     *)
(* add_instance calls long enough to leave the first 32 records behind.    *)
(***************************************************************************)
Odd(s) == Cardinality({i \in DOMAIN shadow[s] : shadow[s][i] # Rec(stores[s].m_layout, 1)})

ConstructEmpty(s, layout) == Construct(s, layout, 0)

AppendInstance(s, tag, fill) ==
    /\ stores[s].m_count < MaxAppend
    /\ tag = 1 \/ Odd(s) < MaxOdd
    /\ AddStep(s, tag, fill)

NextAppend ==
    \/ \E layout \in StoreLayouts : ConstructEmpty("A", layout)
    \/ \E tag \in Tags, fill \in GarbageWords : AppendInstance("A", tag, fill)

SpecAppend == Init /\ [][NextAppend]_vars

(***************************************************************************)
(* SpecMove: two stores that are constructed, filled by add_instance,      *)
(* moved into one another and destroyed.  No buffer is ever mapped here,   *)
(* so one kind of context is enough.                                       *)
(***************************************************************************)
AddSmall(s, tag, fill) ==
    /\ stores[s].m_count < MaxMoveCount
    /\ AddStep(s, tag, fill)

NextMove ==
    \/ \E s \in StoreIds, layout \in StoreLayouts, n \in 0..MaxMoveInit : Construct(s, layout, n)
    \/ \E s \in StoreIds, tag \in Tags, fill \in GarbageWords : AddSmall(s, tag, fill)
    \/ \E d \in StoreIds, s \in StoreIds : MoveConstruct(d, s)
    \/ \E d \in StoreIds, s \in StoreIds : MoveAssign(d, s)
    \/ \E s \in StoreIds : Destroy(s)

InitMove == InitStores /\ strict = FALSE

SpecMove == InitMove /\ [][NextMove]_vars

(***************************************************************************)
(* SpecOwn: two stores of one float per record go through every operation  *)
(* of the class: construction, add, update, delete, moves, destruction.    *)
(* Which writes to a mapped buffer the context rejects changes the floats  *)
(* of a buffer, never a handle: one kind of context is followed.           *)
(***************************************************************************)
OwnLayouts == {vertex_buffer_layout(<<vertex_attribute("float32", "pos")>>)}

AddOwn(s, tag, fill) ==
    /\ stores[s].m_count < MaxOwnCount
    /\ AddStep(s, tag, fill)

NextOwn ==
    \/ \E s \in StoreIds, layout \in OwnLayouts : ConstructEmpty(s, layout)
    \/ \E s \in StoreIds : AddOwn(s, 1, 0)
    \/ \E s \in StoreIds, index \in 0..MaxOwnCount : Update(s, index, 1)
    \/ \E s \in StoreIds, index \in 0..MaxOwnCount : Delete(s, index, 0)
    \/ \E d \in StoreIds, s \in StoreIds : MoveConstruct(d, s)
    \/ \E d \in StoreIds, s \in StoreIds : MoveAssign(d, s)
    \/ \E s \in StoreIds : Destroy(s)

SpecOwn == InitMove /\ [][NextOwn]_vars

(***************************************************************************)
(* SpecTwo: two stores, each constructed empty, on which add_instance,     *)
(* update_instance and delete_instance are called in any interleaving.     *)
(***************************************************************************)
NextTwo ==
    \/ \E s \in StoreIds, layout \in OwnLayouts : ConstructEmpty(s, layout)
    \/ \E s \in StoreIds, tag \in Tags : AddOwn(s, tag, 0)
    \/ \E s \in StoreIds, index \in 0..MaxOwnCount, tag \in Tags : Update(s, index, tag)
    \/ \E s \in StoreIds, index \in 0..MaxOwnCount : Delete(s, index, 0)

SpecTwo == InitMove /\ [][NextTwo]_vars

(***************************************************************************)
(* SpecMisuse: one store constructed empty, on which add_instance and      *)
(* update_instance are called with spans of any length and with any        *)
(* index, in a build with or without STAPLEGL_DEBUG.  A failed assertion   *)
(* ends the program.                                                       *)
(***************************************************************************)
\* a call with the size in bytes of the span it was given, and whether an
\* assertion failed in it
CallSized(op, s, index, n, size_bytes, signaled) ==
    [op |-> op, store |-> s, from |-> s, index |-> index, ret |-> 0, n |-> n,
     grew |-> FALSE, size_bytes |-> size_bytes, signaled |-> signaled]

Aborted == last.op \in {"add_any", "update_any"} /\ last.signaled

Span(len) == [j \in 1..len |-> 20 + j]

\* add_instance(span of len floats): the reallocation comes before the
\* assertion of update_instance
AddAny(s, len, fill) ==
    /\ Live(s) /\ ~Aborted
    /\ FreeIds(Ctx) # {}
    /\ stores[s].m_count < MaxMoveCount
    /\ MustGrow(stores[s]) \/ fill = 0
    /\ LET st == stores[s]
           new_capacity == calc_capacity(st, st.m_capacity)
           g1 == IF MustGrow(st)
                 THEN resize_buffer(Ctx, st, st.m_capacity, new_capacity, NewName(Ctx), fill)
                 ELSE Ctx
           st1 == IF MustGrow(st) THEN [st EXCEPT !.m_capacity = new_capacity] ELSE st
           fails == debug /\ ~update_instance_assert(st1, st1.m_count, len * SizeofFloat)
           r == add_instance(Ctx, st, Span(len), NewName(Ctx), fill)
       IN /\ SetCtx(IF fails THEN g1 ELSE r.g)
          /\ stores' = [stores EXCEPT ![s] = IF fails THEN st1 ELSE r.st]
          /\ shadow' = [shadow EXCEPT ![s] =
                            IF len * SizeofFloat = stride(st.m_layout) THEN Append(@, Span(len)) ELSE @]
          /\ last' = CallSized("add_any", s, st.m_count, st.m_count, len * SizeofFloat, fails)
    /\ UNCHANGED <<lay_in, lay_out, vao, debug, raii>>

\* update_instance(index, span of len floats)
UpdateAny(s, index, len) ==
    /\ Live(s) /\ ~Aborted
    /\ LET st == stores[s]
           fails == debug /\ ~update_instance_assert(st, index, len * SizeofFloat)
       IN /\ SetCtx(IF fails THEN Ctx
                    ELSE update_instance(Ctx, st, index, HostPtr(Span(len)), len * SizeofFloat, 0))
          /\ last' = CallSized("update_any", s, index, st.m_count, len * SizeofFloat, fails)
    /\ UNCHANGED <<stores, shadow, lay_in, lay_out, vao, debug, raii>>

InitMisuse ==
    /\ stores = [s \in StoreIds |-> NoStore]
    /\ bufs = [id \in BufIds |-> NoBuf]
    /\ bound = [t \in Targets |-> 0]
    /\ strict = FALSE
    /\ shadow = [s \in StoreIds |-> <<>>]
    /\ last = Call("init", "A", "A", 0, 0, 0, FALSE)
    /\ lay_in = <<>>
    /\ lay_out = EmptyLayout
    /\ vao = vertex_array
    /\ debug \in BOOLEAN
    /\ raii = NoRaii

NextMisuse ==
    \/ \E layout \in StoreLayouts : ConstructEmpty("A", layout)
    \/ \E len \in 0..MaxLen, fill \in GarbageWords : AddAny("A", len, fill)
    \/ \E index \in -1..(MaxMoveCount + 1), len \in 0..MaxLen : UpdateAny("A", index, len)

SpecMisuse == InitMisuse /\ [][NextMisuse]_vars

(***************************************************************************)
(* SpecArray: buffers are constructed and handed to one vertex_array by    *)
(* add_vertex_buffer and set_instance_buffer; the instance buffer is       *)
(* replaced and cleared.                                                   *)
(***************************************************************************)
ArrayAttrs ==
    {vertex_attribute("vec3", "pos"), vertex_attribute("mat4", "color"),
     vertex_attribute("mat3", "pos"),
     vertex_attribute_arr("float32", "color", 2)}

RECURSIVE ListsOver(_, _)
ListsOver(S, n) ==
    IF n = 0 THEN {<<>>}
    ELSE ListsOver(S, n - 1)
         \cup {Append(l, a) : l \in {x \in ListsOver(S, n - 1) : Len(x) = n - 1}, a \in S}

\* the layouts of the buffers handed to the vertex_array: one attribute or more
ArrayLayouts == {vertex_buffer_layout(l) : l \in ListsOver(ArrayAttrs, MaxAttrs) \ {<<>>}}

\* VAO.add_vertex_buffer(std::move(VBO)) for a vertex_buffer VBO built over layout
AddVertexBuffer(layout) ==
    /\ FreeIds(Ctx) # {}
    /\ vao.attrib_index + Len(layout.m_attributes) <= MaxSlots
    /\ LET c == construct(Ctx, layout, <<>>, NewName(Ctx))
           r == add_vertex_buffer(c.g, vao, vertex_buffer(c.st.m_id, c.st.m_layout))
       IN /\ SetCtx(r.g)
          /\ vao' = r.va
    /\ last' = Call("add_vertex_buffer", "A", "A", Len(layout.m_attributes), 0,
                    vao.attrib_index, FALSE)
    /\ UNCHANGED <<stores, shadow, lay_in, lay_out, debug, raii>>

\* VAO.set_instance_buffer(std::move(VBO_inst)) for a vertex_buffer_inst
\* VBO_inst built over layout
SetInstanceBuffer(layout) ==
    /\ FreeIds(Ctx) # {}
    /\ vao.attrib_index + Len(layout.m_attributes) <= MaxSlots
    /\ LET c == construct(Ctx, layout, <<>>, NewName(Ctx))
           r == set_instance_buffer(c.g, vao, c.st)
       IN /\ SetCtx(r.g)
          /\ vao' = r.va
    /\ last' = Call("set_instance_buffer", "A", "A", Len(layout.m_attributes), 0,
                    vao.attrib_index, FALSE)
    /\ UNCHANGED <<stores, shadow, lay_in, lay_out, debug, raii>>

ClearInstanceBuffer ==
    /\ LET r == clear_instance_buffer(Ctx, vao)
       IN /\ SetCtx(r.g)
          /\ vao' = r.va
    /\ last' = Call("clear_instance_buffer", "A", "A", 0, 0, vao.attrib_index, FALSE)
    /\ UNCHANGED <<stores, shadow, lay_in, lay_out, debug, raii>>

NextArray ==
    \/ \E layout \in ArrayLayouts : AddVertexBuffer(layout)
    \/ \E layout \in ArrayLayouts : SetInstanceBuffer(layout)
    \/ ClearInstanceBuffer

SpecArray == InitMove /\ [][NextArray]_vars

(***************************************************************************)
(* SpecRaii: two objects, each of any of the four owning classes, are      *)
(* constructed, moved into one another and destroyed.  The vertex arrays   *)
(* have nothing attached.                                                  *)
(***************************************************************************)
Object(kind, val) == [kind |-> kind, val |-> val]

\* one object of the class is constructed in o
ConstructObject(o, kind, layout, words) ==
    /\ raii.objs[o].kind = "none"
    /\ kind = "vertex_array" => FreeArrays(raii.arrays) # {}
    /\ kind # "vertex_array" => FreeIds(Ctx) # {}
    /\ \/ /\ kind = "vertex_buffer"
          /\ LET c == construct(Ctx, layout, words, NewName(Ctx))
             IN /\ SetCtx(c.g)
                /\ raii' = [raii EXCEPT !.objs[o] =
                               Object(kind, vertex_buffer(c.st.m_id, c.st.m_layout))]
       \/ /\ kind = "index_buffer"
          /\ LET c == index_buffer(Ctx, words, NewName(Ctx))
             IN /\ SetCtx(c.g)
                /\ raii' = [raii EXCEPT !.objs[o] = Object(kind, c.obj)]
       \/ /\ kind = "uniform_buffer"
          /\ LET c == uniform_buffer(Ctx, raii.base, words, layout, 0, NewName(Ctx))
             IN /\ SetCtx(c.g)
                /\ raii' = [raii EXCEPT !.objs[o] = Object(kind, c.obj), !.base = c.base]
       \/ /\ kind = "vertex_array"
          /\ LET c == vertex_array_construct(raii.arrays, NewArray(raii.arrays))
             IN raii' = [raii EXCEPT !.objs[o] = Object(kind, c.obj), !.arrays = c.arrays]
          /\ UNCHANGED <<bufs, bound, strict>>
    /\ last' = Call("construct_object", o, o, 0, 0, 0, FALSE)
    /\ UNCHANGED <<stores, shadow, lay_in, lay_out, vao, debug>>

\* T d(std::move(s))
MoveConstructObject(d, s) ==
    /\ raii.objs[d].kind = "none"
    /\ raii.objs[s].kind # "none"
    /\ LET kind == raii.objs[s].kind
           other == raii.objs[s].val
           r == CASE kind = "vertex_buffer" -> move_construct(other)
                  [] kind = "index_buffer" -> index_buffer_move_construct(other)
                  [] kind = "uniform_buffer" -> uniform_buffer_move_construct(other)
                  [] kind = "vertex_array" -> vertex_array_move_construct(other)
       IN raii' = [raii EXCEPT !.objs[d] = Object(kind, r.dst), !.objs[s] = Object(kind, r.src)]
    /\ last' = Call("move_construct_object", d, s, 0, 0, 0, FALSE)
    /\ UNCHANGED <<stores, bufs, bound, strict, shadow, lay_in, lay_out, vao, debug>>

\* d = std::move(s) for two objects of one class; nothing happens when d
\* and s are the same object
MoveAssignObject(d, s) ==
    /\ raii.objs[d].kind # "none"
    /\ raii.objs[s].kind = raii.objs[d].kind
    /\ IF d = s
       THEN UNCHANGED <<bufs, bound, strict, raii>>
       ELSE LET kind == raii.objs[s].kind
                this == raii.objs[d].val
                other == raii.objs[s].val
                r == CASE kind = "vertex_buffer" -> move_assign(Ctx, this, other)
                       [] kind = "index_buffer" -> index_buffer_move_assign(Ctx, this, other)
                       [] kind = "uniform_buffer" -> uniform_buffer_move_assign(Ctx, this, other)
                       [] kind = "vertex_array" -> vertex_array_move_assign(Ctx, this, other)
            IN /\ SetCtx(r.g)
               /\ raii' = [raii EXCEPT !.objs[d] = Object(kind, r.dst),
                                       !.objs[s] = Object(kind, r.src),
                                       !.base = Unbase(@, r.g)]
    /\ last' = Call("move_assign_object", d, s, raii.objs[d].val.m_id, 0, 0, FALSE)
    /\ UNCHANGED <<stores, shadow, lay_in, lay_out, vao, debug>>

\* the destructor of the object in o
DestroyObject(o) ==
    /\ raii.objs[o].kind # "none"
    /\ LET kind == raii.objs[o].kind
           this == raii.objs[o].val
           g == CASE kind = "vertex_buffer" -> destroy(Ctx, this).g
                  [] kind = "index_buffer" -> index_buffer_destroy(Ctx, this)
                  [] kind = "uniform_buffer" -> uniform_buffer_destroy(Ctx, this)
                  [] kind = "vertex_array" -> vertex_array_destroy(Ctx, raii.arrays, this).g
       IN /\ SetCtx(g)
          /\ raii' = [raii EXCEPT !.objs[o] = NoObject,
                                  !.arrays = IF kind = "vertex_array"
                                             THEN vertex_array_destroy(Ctx, raii.arrays, this).arrays
                                             ELSE @,
                                  !.base = Unbase(@, g)]
    /\ last' = Call("destroy_object", o, o, raii.objs[o].val.m_id, 0, 0, FALSE)
    /\ UNCHANGED <<stores, shadow, lay_in, lay_out, vao, debug>>

\* the layout of the buffers of SpecRaii: one float; they are built over
\* one float or one index
RaiiLayout == vertex_buffer_layout(<<vertex_attribute("float32", "pos")>>)

NextRaii ==
    \/ \E o \in StoreIds, kind \in RaiiKinds : ConstructObject(o, kind, RaiiLayout, <<1>>)
    \/ \E d \in StoreIds, s \in StoreIds : MoveConstructObject(d, s)
    \/ \E d \in StoreIds, s \in StoreIds : MoveAssignObject(d, s)
    \/ \E o \in StoreIds : DestroyObject(o)

SpecRaii == InitMove /\ [][NextRaii]_vars

(***************************************************************************)
(* SpecLayout: a vertex_buffer_layout is constructed from an initializer   *)
(* list of attributes.                                                     *)
(***************************************************************************)
RECURSIVE AttrLists(_)
AttrLists(n) ==
    IF n = 0 THEN {<<>>}
    ELSE AttrLists(n - 1) \cup {Append(l, a) : l \in {x \in AttrLists(n - 1) : Len(x) = n - 1}, a \in Attributes}

InitLayout ==
    /\ stores = [s \in StoreIds |-> NoStore]
    /\ bufs = [id \in BufIds |-> NoBuf]
    /\ bound = [t \in Targets |-> 0]
    /\ strict = FALSE
    /\ shadow = [s \in StoreIds |-> <<>>]
    /\ last = Call("init", "A", "A", 0, 0, 0, FALSE)
    /\ lay_in \in AttrLists(MaxAttrs)
    /\ lay_out = EmptyLayout
    /\ vao = vertex_array
    /\ debug = FALSE
    /\ raii = NoRaii

BuildLayout ==
    /\ last.op = "init"
    /\ lay_out' = vertex_buffer_layout(lay_in)
    /\ last' = Call("layout", "A", "A", 0, 0, 0, FALSE)
    /\ UNCHANGED <<stores, bufs, bound, strict, shadow, lay_in, vao, debug, raii>>

NextLayout == BuildLayout

SpecLayout == InitLayout /\ [][NextLayout]_vars

(***************************************************************************)
(* SpecIndex: a vertex_buffer_layout is constructed and its attributes are *)
(* looked up by position, with positions inside and outside the layout.    *)
(***************************************************************************)
IndexAttrs == {vertex_attribute(t, "pos") : t \in u_type}

InitIndex ==
    /\ stores = [s \in StoreIds |-> NoStore]
    /\ bufs = [id \in BufIds |-> NoBuf]
    /\ bound = [t \in Targets |-> 0]
    /\ strict = FALSE
    /\ shadow = [s \in StoreIds |-> <<>>]
    /\ last = Call("init", "A", "A", 0, 0, 0, FALSE)
    /\ lay_in \in ListsOver(IndexAttrs, MaxAttrs)
    /\ lay_out = EmptyLayout
    /\ vao = vertex_array
    /\ debug = FALSE
    /\ raii = NoRaii

\* layout[index]
At(index, ub) ==
    /\ last.op \in {"layout", "at"}
    /\ last.op = "at" => last.result.kind # "terminated"
    /\ last' = [op |-> "at", store |-> "A", from |-> "A", index |-> index, ret |-> 0, n |-> 0,
                grew |-> FALSE, result |-> layout_at(lay_out, index, ub)]
    /\ UNCHANGED <<stores, bufs, bound, strict, shadow, lay_in, lay_out, vao, debug, raii>>

NextIndex ==
    \/ BuildLayout
    \/ \E index \in 0..(MaxAttrs + 1), ub \in PastTheEnd : At(index, ub)

SpecIndex == InitIndex /\ [][NextIndex]_vars

(***************************************************************************)
(* SpecNamed: a glcore::vertex_buffer_layout is constructed from an        *)
(* initializer list of attributes of any names.                            *)
(***************************************************************************)
NamedAttrs == {vertex_attribute(t, n) : t \in u_type, n \in Names}

InitNamed ==
    /\ stores = [s \in StoreIds |-> NoStore]
    /\ bufs = [id \in BufIds |-> NoBuf]
    /\ bound = [t \in Targets |-> 0]
    /\ strict = FALSE
    /\ shadow = [s \in StoreIds |-> <<>>]
    /\ last = Call("init", "A", "A", 0, 0, 0, FALSE)
    /\ lay_in \in ListsOver(NamedAttrs, MaxAttrs)
    /\ lay_out = EmptyLayout
    /\ vao = vertex_array
    /\ debug = FALSE
    /\ raii = NoRaii

BuildNamed ==
    /\ last.op = "init"
    /\ lay_out' = glcore_vertex_buffer_layout(lay_in)
    /\ last' = Call("named_layout", "A", "A", 0, 0, 0, FALSE)
    /\ UNCHANGED <<stores, bufs, bound, strict, shadow, lay_in, vao, debug, raii>>

NextNamed == BuildNamed

SpecNamed == InitNamed /\ [][NextNamed]_vars

(***************************************************************************)
(* Properties of the stores and layouts.                                  *)
(***************************************************************************)
Stride(s) == stride(stores[s].m_layout)

Range(seq) == {seq[i] : i \in DOMAIN seq}

BagOfSeq(seq) == [x \in Range(seq) |-> Cardinality({i \in DOMAIN seq : seq[i] = x})]

\* the records in slots 0..count-1 of store s
Slots(s) == [i \in 1..stores[s].m_count |-> Slot(bufs, stores[s], i - 1)]

\* C1: in every reachable state of a store, however it was constructed and
\* whatever calls were made on it, instance_count() * stride() <= capacity().
CountFitsCapacity ==
    \A s \in StoreIds :
        Live(s) => instance_count(stores[s]) * Stride(s) <= capacity(stores[s])

\* C2: on a store constructed empty and only appended to, slot i of the
\* device buffer holds the i-th record added, for every i below the count.
AppendRoundTrip ==
    \A s \in StoreIds :
        Live(s) =>
            /\ stores[s].m_count = Len(shadow[s])
            /\ \A i \in 0..(stores[s].m_count - 1) :
                   Slot(bufs, stores[s], i) = shadow[s][i + 1]

\* a run of appends that went through the reallocations 0 -> stride,
\* stride -> 32 * stride and the golden-ratio one, with records that differ
AppendedPastFirstGrowth ==
    /\ Live("A")
    /\ stores["A"].m_count > FirstGrowth
    /\ stores["A"].m_capacity > FirstGrowth * Stride("A")
    /\ Odd("A") > 0
    /\ last.op = "add"

\* C3: a delete_instance(k) with 0 <= k < n = count leaves count = n - 1 and
\* slot k holding what slot n - 1 held before the call (for k = n - 1 that
\* is slot k unchanged).
SwapDelete ==
    [][(/\ last'.op = "delete"
        /\ last'.index >= 0
        /\ last'.index < stores[last'.store].m_count)
       => LET s == last'.store
              k == last'.index
              n == stores[s].m_count
          IN /\ stores'[s].m_count = n - 1
             /\ Slot(bufs', stores'[s], k) = Slot(bufs, stores[s], n - 1)]_vars

\* C4: the records in slots 0..count-1 are, as a multiset, the records added
\* and not deleted since.
LiveSetKept ==
    \A s \in StoreIds : Live(s) => BagOfSeq(Slots(s)) = BagOfSeq(shadow[s])

\* C5: a delete_instance whose index is negative or not below count changes
\* neither the store nor any buffer nor any binding, and returns count.
DeleteOutOfRangeNoOp ==
    [][(/\ last'.op = "delete"
        /\ \/ last'.index >= stores[last'.store].m_count
           \/ last'.index < 0)
       => /\ stores' = stores
          /\ bufs' = bufs
          /\ bound' = bound
          /\ last'.ret = stores[last'.store].m_count]_vars

\* a delete_instance(count) was made on a store that holds records
DeletedOutOfRange ==
    /\ last.op = "delete"
    /\ last.n > 0
    /\ last.index >= last.n
    /\ last.ret = last.n

\* C6: whenever a store is in a state where add_instance would reallocate,
\* calc_capacity of its capacity is larger than its capacity.
GrowthIncreases ==
    \A s \in StoreIds :
        (Live(s) /\ (stores[s].m_count + 1) * Stride(s) > stores[s].m_capacity)
            => calc_capacity(stores[s], stores[s].m_capacity) > stores[s].m_capacity

\* m is the integer part of c times the golden ratio
IsFloorOfPhiTimes(c, m) ==
    /\ 2 * m >= c
    /\ (2 * m - c) * (2 * m - c) <= 5 * c * c
    /\ (2 * m + 2 - c) * (2 * m + 2 - c) > 5 * c * c

\* C7: an add_instance that reallocates takes capacity 0 to stride, capacity
\* stride to 32 * stride and any other capacity c to floor(c * phi); with
\* stride 12 the first add on an empty store gives capacity 12 and count 1,
\* the second capacity 384 and count 2.
CapacityPolicy ==
    [][last'.op = "add"
       => LET s == last'.store
              c == stores[s].m_capacity
              n == stores[s].m_count
              c2 == stores'[s].m_capacity
              n2 == stores'[s].m_count
          IN /\ (n + 1) * Stride(s) > c
                 => IF c = 0 THEN c2 = Stride(s)
                    ELSE IF c = Stride(s) THEN c2 = 32 * Stride(s)
                    ELSE IsFloorOfPhiTimes(c, c2)
             /\ (Stride(s) = 12 /\ c = 0 /\ n = 0) => (c2 = 12 /\ n2 = 1)
             /\ (Stride(s) = 12 /\ c = 12 /\ n = 1) => (c2 = 384 /\ n2 = 2)]_vars

\* the second add_instance on an empty store of stride 12 has been made
SecondAddOfStride12 ==
    /\ last.op = "add"
    /\ last.n = 1
    /\ last.grew
    /\ Stride(last.store) = 12
    /\ stores[last.store].m_capacity = 384
    /\ stores[last.store].m_count = 2

\* C8: an add_instance made when (count + 1) * stride <= capacity leaves the
\* capacity, the handle, the set of buffers and their sizes as they were, and
\* changes no float outside slot count of the store's buffer.
AddWithoutGrowth ==
    [][(/\ last'.op = "add"
        /\ (stores[last'.store].m_count + 1) * Stride(last'.store)
               <= stores[last'.store].m_capacity)
       => LET s == last'.store
              id == stores[s].m_id
              lo == Words(stores[s].m_count * Stride(s))
              hi == Words((stores[s].m_count + 1) * Stride(s))
          IN /\ stores'[s].m_capacity = stores[s].m_capacity
             /\ stores'[s].m_id = id
             /\ \A b \in BufIds :
                    /\ bufs'[b].gen = bufs[b].gen
                    /\ bufs'[b].size = bufs[b].size
                    /\ Len(bufs'[b].data) = Len(bufs[b].data)
                    /\ \A i \in 1..Len(bufs[b].data) :
                           (b # id \/ i <= lo \/ i > hi) => bufs'[b].data[i] = bufs[b].data[i]]_vars

\* a third record was added to a store grown from empty, without reallocation
AddedWithoutGrowth ==
    /\ last.op = "add"
    /\ ~last.grew
    /\ last.n >= 2
    /\ stores[last.store].m_capacity = 32 * Stride(last.store)

\* the layout of the first concrete scenario
PosColor == <<vertex_attribute("vec3", "pos"), vertex_attribute("vec3", "color")>>

\* C9: in a constructed layout the first attribute has offset 0, every other
\* attribute starts where the one before it ends, and stride() is where the
\* last one ends; [{vec3, pos}, {vec3, color}] gives offsets 0 and 12 and
\* stride 24.
LayoutOffsets ==
    last.op = "layout" =>
        LET a == lay_out.m_attributes
            n == Len(a)
            bytes(x) == size(x.type) * x.element_count
        IN /\ n = Len(lay_in)
           /\ \A i \in 1..n : a[i].type = lay_in[i].type /\ a[i].element_count = lay_in[i].element_count
           /\ n > 0 =>
                /\ a[1].offset = 0
                /\ \A i \in 2..n : a[i].offset = a[i - 1].offset + bytes(a[i - 1])
                /\ stride(lay_out) = a[n].offset + bytes(a[n])
           /\ lay_in = PosColor =>
                /\ stride(lay_out) = 24
                /\ a[1].offset = 0
                /\ a[2].offset = 12

\* the layout [{vec3, pos}, {vec3, color}] has been constructed
PosColorBuilt ==
    /\ last.op = "layout"
    /\ lay_in = PosColor
    /\ lay_out.m_stride = 24

\* C10: a move construction or move assignment gives the destination the
\* source's handle and leaves the source with handle 0 and count 0.
MoveEmptiesSource ==
    [][last'.op \in {"move_construct", "move_assign"}
       => /\ stores'[last'.store].m_id = stores[last'.from].m_id
          /\ stores'[last'.from].m_id = 0
          /\ instance_count(stores'[last'.from]) = 0]_vars

\* no handle but 0 is held by two live stores, and the handle a live store
\* holds names a buffer that has not been deleted
HandlesExclusive ==
    /\ \A s \in StoreIds, t \in StoreIds :
           (Live(s) /\ Live(t) /\ s # t /\ stores[s].m_id # 0)
               => stores[s].m_id # stores[t].m_id
    /\ \A s \in StoreIds : (Live(s) /\ stores[s].m_id # 0) => bufs[stores[s].m_id].gen

\* the handle a destructor or a move assignment hands to glDeleteBuffers is 0
\* or names a buffer that exists, and the buffer is gone afterwards
ReleasesOnce ==
    last'.op \in {"destroy", "move_assign"}
        => LET id == stores[last'.store].m_id
           IN id # 0 => (bufs[id].gen /\ ~bufs'[id].gen)

\* C11: over any sequence of constructions, moves, add, update and delete
\* calls and destructions, no handle but 0 is held by two live stores and no
\* handle is deleted twice.
ExclusiveOwnership == []HandlesExclusive /\ [][ReleasesOnce]_vars

\* a move assignment has released the destination's buffer and handed it
\* the buffer of the source: of the two buffers constructed only the
\* second is left, and the destination holds it
OwnershipExercised ==
    /\ last.op = "move_assign"
    /\ Live(last.store) /\ Live(last.from)
    /\ stores[last.store].m_id = 2
    /\ stores[last.from].m_id = 0
    /\ {id \in BufIds : bufs[id].gen} = {2}

Attached(va, op) ==
    IF op = "add_vertex_buffer"
    THEN va.m_vertex_buffers[Len(va.m_vertex_buffers)]
    ELSE va.m_instanced_vbo

AttachOps == {"add_vertex_buffer", "set_instance_buffer"}

\* slots 0..attrib_index-1 have been programmed once, the others never
SlotsProgrammedOnce ==
    \A i \in SlotIds :
        vao.slots[i].programmed = (IF i < vao.attrib_index THEN 1 ELSE 0)

\* a call attaching a buffer of k attributes when the slot index is n
\* programs slots n..n+k-1 for that buffer and by that call, leaves every
\* other slot alone and the slot index at n+k
SlotsContinue ==
    last'.op \in AttachOps
        => LET n == vao.attrib_index
               k == Len(Attached(vao', last'.op).m_layout.m_attributes)
           IN /\ vao'.attrib_index = n + k
              /\ \A i \in SlotIds :
                     IF i >= n /\ i < n + k
                     THEN /\ vao'.slots[i].by = last'.op
                          /\ vao'.slots[i].buffer = Attached(vao', last'.op).m_id
                          /\ vao'.slots[i].enabled
                     ELSE vao'.slots[i] = vao.slots[i]

\* C13: on one vertex_array the slot index goes up by one per attribute
\* programmed, across buffers: a buffer of n attributes added first has
\* slots 0..n-1, an instance buffer of m attributes set next has slots
\* n..n+m-1, and no slot is programmed twice.
SlotIndexShared == []SlotsProgrammedOnce /\ [][SlotsContinue]_vars

\* a vertex buffer of two attributes was added, then an instance buffer of
\* one attribute was set
VertexThenInstance ==
    /\ last.op = "set_instance_buffer"
    /\ Len(vao.m_vertex_buffers) = 1
    /\ Len(vao.m_vertex_buffers[1].m_layout.m_attributes) = 2
    /\ vao.attrib_index = 3
    /\ vao.slots[1].by = "add_vertex_buffer"
    /\ vao.slots[2].by = "set_instance_buffer"

\* C14: for each attribute of the layout of an attached buffer, in layout
\* order, one descriptor is registered: the next slot index, size
\* component_count(type) * element_count, type GL_FLOAT, the stride of the
\* layout and the offset of the attribute.
DescriptorPerAttribute ==
    [][last'.op \in AttachOps
       => LET n == vao.attrib_index
              layout == Attached(vao', last'.op).m_layout
          IN \A j \in 1..Len(layout.m_attributes) :
                 LET a == layout.m_attributes[j]
                     d == vao'.slots[n + j - 1]
                 IN /\ d.programmed = 1
                    /\ d.size = component_count(a.type) * a.element_count
                    /\ d.type = "GL_FLOAT"
                    /\ d.stride = stride(layout)
                    /\ d.offset = a.offset]_vars

\* an instance buffer of layout [vec3, mat4] was set: slot 0 has 3 floats at
\* offset 0, slot 1 has 16 floats at offset 12, both of stride 76
MatrixDescriptorRegistered ==
    /\ last.op = "set_instance_buffer"
    /\ last.n = 0
    /\ vao.attrib_index = 2
    /\ vao.slots[0].size = 3 /\ vao.slots[0].offset = 0 /\ vao.slots[0].stride = 76
    /\ vao.slots[1].size = 16 /\ vao.slots[1].offset = 12 /\ vao.slots[1].stride = 76

\* C15: a slot has the per-instance divisor if and only if it was programmed
\* by set_instance_buffer; a slot programmed by add_vertex_buffer never has.
DivisorIffInstance ==
    \A i \in SlotIds :
        /\ vao.slots[i].divisor # 0 <=> vao.slots[i].by = "set_instance_buffer"
        /\ vao.slots[i].by = "add_vertex_buffer" => vao.slots[i].divisor = 0

\* slots of both kinds exist, the instance buffer having been set before
\* the vertex buffer
BothKindsOfSlot ==
    /\ last.op = "add_vertex_buffer"
    /\ vao.slots[0].by = "set_instance_buffer" /\ vao.slots[0].divisor = 1
    /\ vao.slots[1].by = "add_vertex_buffer" /\ vao.slots[1].divisor = 0

DeleteReturnsLastIndex ==
    [][(/\ last'.op = "delete"
        /\ last'.index >= 0
        /\ last'.index < stores[last'.store].m_count)
       => /\ last'.ret = last'.index
          /\ last'.ret = stores[last'.store].m_count - 1]_vars

\* C18: a store constructed over a span of k records is as a store
\* constructed empty to which the k records were added: instance_count() is
\* k, slots 0..k-1 hold the records, and the next add_instance writes slot k.
InitialDataAsAdds ==
    /\ [](\A s \in StoreIds :
            (last.op = "construct" /\ last.store = s
                /\ last.index % stride_elements(stores[s].m_layout) = 0)
            => LET k == last.index \div stride_elements(stores[s].m_layout)
               IN /\ instance_count(stores[s]) = k
                  /\ \A i \in 0..(k - 1) :
                         Slot(bufs, stores[s], i)
                             = InitData(stores[s].m_layout, stride_elements(stores[s].m_layout)))
    /\ [][(last.op = "construct" /\ last'.op = "add"
            /\ last.index % stride_elements(stores[last.store].m_layout) = 0)
           => LET s == last'.store
                  k == last.index \div stride_elements(stores[s].m_layout)
              IN /\ instance_count(stores'[s]) = k + 1
                 /\ Slot(bufs', stores'[s], k) = shadow'[s][Len(shadow'[s])]]_vars

\* C19: an add_instance or update_instance given a record whose size is not
\* the stride, or an update_instance given an index outside [0, count), is
\* signalled where it is called (an assertion fails) instead of being
\* performed.
MisuseSignalled ==
    [][(/\ last'.op \in {"add_any", "update_any"}
        /\ \/ last'.size_bytes # Stride(last'.store)
           \/ /\ last'.op = "update_any"
              /\ last'.index < 0 \/ last'.index >= stores[last'.store].m_count)
       => last'.signaled]_vars

\* C20: between the mapping of a range of a buffer and its unmapping no
\* write, copy or allocation is issued on that buffer by an operation of the
\* store: delete_instance never writes to the buffer it has mapped.
NoWriteWhileMapped ==
    [][last'.op = "delete"
       => ~MappedAtWrite(Ctx, stores[last'.store], last'.index)]_vars

\* the context in which the buffer of store st is the one bound to
\* GL_ARRAY_BUFFER, as every operation of the store leaves it
OwnBound(g, st) == glBindBuffer(g, "GL_ARRAY_BUFFER", st.m_id)

\* C21: of two stores, a call of add_instance, update_instance or
\* delete_instance on one leaves the fields and the buffer of the other as
\* they were, and a delete_instance does to its own store and buffer what
\* it does when the store's buffer is the one bound to GL_ARRAY_BUFFER,
\* whatever the last call on the other store left bound.
StoresIndependent ==
    [][last'.op \in {"add", "update", "delete"}
       => LET s == last'.store
              t == CHOOSE x \in StoreIds : x # s
              alone == delete_instance(OwnBound(Ctx, stores[s]), stores[s], last'.index, 0)
          IN /\ stores'[t] = stores[t]
             /\ stores[t].m_id # 0 => bufs'[stores[t].m_id] = bufs[stores[t].m_id]
             /\ last'.op = "delete"
                    => /\ stores'[s] = alone.st
                       /\ bufs'[stores[s].m_id] = alone.g.bufs[stores[s].m_id]]_vars

\* C22: in every reachable state of a store, right after a construction
\* over initial data included, capacity() is the size in bytes of the data
\* store of its buffer.
CapacityIsAllocatedSize ==
    \A s \in StoreIds :
        (Live(s) /\ stores[s].m_id # 0) => capacity(stores[s]) = bufs[stores[s].m_id].size

\* C26: an update_instance(index, record) with 0 <= index < count and a
\* record of stride bytes leaves slot index holding the record and changes
\* nothing else: no other float of any buffer, no buffer's size, not the
\* count, the capacity or the handle.
UpdateFrame ==
    [][last'.op = "update"
       => LET s == last'.store
              id == stores[s].m_id
              lo == Words(last'.index * Stride(s))
              hi == Words((last'.index + 1) * Stride(s))
          IN /\ Slot(bufs', stores'[s], last'.index) = shadow'[s][last'.index + 1]
             /\ stores' = stores
             /\ \A b \in BufIds :
                    /\ bufs'[b].gen = bufs[b].gen
                    /\ bufs'[b].size = bufs[b].size
                    /\ Len(bufs'[b].data) = Len(bufs[b].data)
                    /\ \A i \in 1..Len(bufs[b].data) :
                           (b # id \/ i <= lo \/ i > hi) => bufs'[b].data[i] = bufs[b].data[i]]_vars

\* C27: the write an add_instance issues, and the read and the write a
\* delete_instance issues, lie inside the data store the buffer of the
\* store has when they are issued, for a store constructed over any
\* initial data.
AccessInBounds ==
    [][(\/ last'.op = "add"
        \/ last'.op = "delete" /\ ~OutOfRange(stores[last'.store], last'.index))
       => LET s == last'.store
              n == stores[s].m_count
              allocated == bufs'[stores[s].m_id].size
          IN IF last'.op = "add"
             THEN (n + 1) * Stride(s) <= allocated
             ELSE /\ n * Stride(s) <= allocated
                  /\ (last'.index + 1) * Stride(s) <= allocated]_vars

\* C23: every attribute of a constructed layout has a size, size(type) *
\* element_count, that is positive and a multiple of 4, and the offsets of
\* the attributes increase strictly.
AttributeSizesPositive ==
    last.op = "layout" =>
        LET a == lay_out.m_attributes
        IN /\ \A i \in DOMAIN a :
                  /\ size(a[i].type) * a[i].element_count > 0
                  /\ (size(a[i].type) * a[i].element_count) % 4 = 0
           /\ \A i \in DOMAIN a : \A j \in DOMAIN a : i < j => a[i].offset < a[j].offset

\* C24: a lookup by position with index >= the number of attributes fails
\* with an out-of-range error and gives no attribute.
IndexOutOfRangeFails ==
    (last.op = "at" /\ last.index >= Len(lay_out.m_attributes))
        => last.result.kind = "out_of_range"

\* the sum of the sizes of the attributes of a list
RECURSIVE SumOfSizes(_)
SumOfSizes(attributes) ==
    IF attributes = <<>> THEN 0
    ELSE glcore_size(Head(attributes).type) * Head(attributes).element_count
         + SumOfSizes(Tail(attributes))

\* C25: in the layout keyed by name, the offset of every attribute is the
\* sum of the sizes of the attributes declared before it in the constructor's
\* list, whatever the names, and the stride is the sum of the sizes of all
\* the attributes declared.
NamedOffsets ==
    last.op = "named_layout" =>
        /\ stride(lay_out) = SumOfSizes(lay_in)
        /\ \A i \in DOMAIN lay_in :
               /\ glcore_at(lay_out, lay_in[i].name).kind = "attribute"
               /\ (\A j \in 1..(i - 1) : lay_in[j].name # lay_in[i].name)
                      => glcore_at(lay_out, lay_in[i].name).value.offset
                             = SumOfSizes(SubSeq(lay_in, 1, i - 1))

\* the size in bytes of every type is 4 times its number of components
SizeIsFourPerComponent == \A type \in u_type : size(type) = 4 * component_count(type)

\* the byte ranges of the descriptors a call attaching a buffer hands over:
\* the first starts at 0, each ends where the next starts, the last ends at
\* the stride
DescriptorsTile ==
    last'.op \in AttachOps
        => LET n == vao.attrib_index
               k == vao'.attrib_index - n
               lo(j) == vao'.slots[n + j - 1].offset
               hi(j) == lo(j) + 4 * vao'.slots[n + j - 1].size
           IN /\ k = Len(Attached(vao', last'.op).m_layout.m_attributes)
              /\ lo(1) = 0
              /\ \A j \in 1..(k - 1) : hi(j) = lo(j + 1)
              /\ \A j \in 1..k : vao'.slots[n + j - 1].stride = hi(k)

\* C28: for each of the six attribute types size(type) = 4 *
\* component_count(type), and the byte ranges [offset, offset + 4 *
\* component_count * element_count) of the descriptors programmed for one
\* layout tile [0, stride) with no gap and no overlap.
ComponentsTileStride == []SizeIsFourPerComponent /\ [][DescriptorsTile]_vars

\* an instance buffer of layout [mat3, vec3] was set: 12 floats at offset 0,
\* then 3 floats at offset 48, both of stride 60
PaddedMatrixTiles ==
    /\ last.op = "set_instance_buffer"
    /\ last.n = 0
    /\ vao.attrib_index = 2
    /\ vao.slots[0].size = 12 /\ vao.slots[0].offset = 0 /\ vao.slots[0].stride = 60
    /\ vao.slots[1].size = 3 /\ vao.slots[1].offset = 48 /\ vao.slots[1].stride = 60

\* the number of attributes of the buffers attached to a vertex_array
RECURSIVE AttachedAttributes(_)
AttachedAttributes(buffers) ==
    IF buffers = <<>> THEN 0
    ELSE Len(Head(buffers).m_layout.m_attributes) + AttachedAttributes(Tail(buffers))

\* the next slot index is the number of attributes of the vertex buffers and
\* of the instance buffer now attached
SlotIndexCountsAttached ==
    vao.attrib_index
        = AttachedAttributes(vao.m_vertex_buffers)
          + (IF vao.m_instanced_vbo.state = "live"
             THEN Len(vao.m_instanced_vbo.m_layout.m_attributes) ELSE 0)

\* the lowest slot of a set
Lowest(S) == CHOOSE i \in S : \A j \in S : i <= j

\* an instance buffer set in the place of another is programmed from the
\* first slot of the one it replaces
ReplacementReusesSlots ==
    (last'.op = "set_instance_buffer" /\ vao.m_instanced_vbo.state = "live")
        => LET old == {i \in SlotIds : /\ vao.slots[i].by = "set_instance_buffer"
                                       /\ vao.slots[i].buffer = vao.m_instanced_vbo.m_id}
               new == {i \in SlotIds : vao'.slots[i] # vao.slots[i]}
           IN old # {} /\ new # {} => Lowest(new) = Lowest(old)

\* C29: after any sequence of add_vertex_buffer, set_instance_buffer and
\* clear_instance_buffer on one vertex_array the next slot index is the
\* number of attributes of the buffers attached to it, and an instance
\* buffer that replaces another is programmed at the slots of the one it
\* replaces.
SlotsGivenBack == []SlotIndexCountsAttached /\ [][ReplacementReusesSlots]_vars

\* is the handle id of an object of the class in use in OpenGL
InUse(kind, id) == IF kind = "vertex_array" THEN raii.arrays[id] ELSE bufs[id].gen

\* once every object is destroyed no buffer and no vertex array is in use
NothingLeftBehind ==
    (\A o \in StoreIds : raii.objs[o].kind = "none")
        => /\ \A id \in BufIds : ~bufs[id].gen
           /\ \A id \in VaoIds : ~raii.arrays[id]

\* a handle an object holds is in use, and no two objects of one class hold
\* the same: no destructor releases a handle a second time
HeldOnce ==
    \A o \in StoreIds :
        (raii.objs[o].kind # "none" /\ raii.objs[o].val.m_id # 0)
            => /\ InUse(raii.objs[o].kind, raii.objs[o].val.m_id)
               /\ \A q \in StoreIds \ {o} :
                      raii.objs[q].kind = raii.objs[o].kind
                          => raii.objs[q].val.m_id # raii.objs[o].val.m_id

\* a move assignment into an object that holds a handle releases it
MoveAssignReleases ==
    (/\ last'.op = "move_assign_object"
     /\ last'.store # last'.from
     /\ raii.objs[last'.store].val.m_id # 0
     /\ InUse(raii.objs[last'.store].kind, raii.objs[last'.store].val.m_id))
        => IF raii.objs[last'.store].kind = "vertex_array"
           THEN ~raii'.arrays[raii.objs[last'.store].val.m_id]
           ELSE ~bufs'[raii.objs[last'.store].val.m_id].gen

\* C30: for vertex_buffer, index_buffer, uniform_buffer and vertex_array, a
\* move assignment into an object that owns a non-zero handle releases that
\* handle, so that after any constructions, moves and destructions every
\* handle created has been released exactly once when all the objects are
\* destroyed.
HandlesReleasedOnce ==
    []NothingLeftBehind /\ []HeldOnce /\ [][MoveAssignReleases]_vars

====
